---------------------------- MODULE Spec2Model ----------------------------
(* Model of update.py: one run of the script is one update cycle over     *)
(* data.json.  Python dicts are functions whose DOMAIN is the set of keys *)
(* present, so an absent key is an absent domain element.  Scores are     *)
(* integers in hundredths, model deltas are integers in thousandths.      *)
EXTENDS Integers, Sequences, FiniteSets, TLC

VARIABLES pc, cycle, clock, credential, disk, diskBefore, data, i,
          response_text, aura_changes, exitCode, raised, raisedAt,
          gatewayCalls, writes, updatesApplied, reads

vars == <<pc, cycle, clock, credential, disk, diskBefore, data, i,
          response_text, aura_changes, exitCode, raised, raisedAt,
          gatewayCalls, writes, updatesApplied, reads>>

(* Number of runs of the script that one behaviour follows. *)
MaxCycles == 2

-----------------------------------------------------------------------------
(* Dict helpers *)

Put(d, k, v) == (k :> v) @@ d

Has(d, k) == k \in DOMAIN d

-----------------------------------------------------------------------------
(* Names, as stored and as the model may render them *)

Lower(s) ==
    CASE s = "Jane Doe" -> "jane doe"
      [] s = "jane doe" -> "jane doe"
      [] s = "Bob"      -> "bob"
      [] s = "BOB"      -> "bob"
      [] OTHER          -> s

(* variant: lookup through lower-cased keys *)
GetIgnoringCase(d, k, default) ==
    IF \E key \in DOMAIN d : Lower(key) = Lower(k)
    THEN d[CHOOSE key \in DOMAIN d : Lower(key) = Lower(k)]
    ELSE default

(* dict.get(key, default): the key is compared exactly as written *)
Get(d, k, default) == IF k \in DOMAIN d THEN d[k] ELSE default

-----------------------------------------------------------------------------
(* JSON values of the response: k is the Python type json.loads yields,  *)
(* n the number it carries (thousandths) when it carries one.            *)

Num(n)    == [k |-> "num", n |-> n]
NumStr(n) == [k |-> "numstr", n |-> n]      \* a string such as "2.5"
Str       == [k |-> "str", n |-> 0]         \* a string such as "n/a"
Null      == [k |-> "null", n |-> 0]
List      == [k |-> "list", n |-> 0]
Obj       == [k |-> "obj", n |-> 0]

(* variant: a missing name gets a default of 1.0 *)
DefaultChangeOne == Num(1000)

(* the default of aura_changes.get(name, 0.0) *)
DefaultChange == Num(0)

(* float(aura_change): the value, or the exception float raises *)
Float(v) ==
    CASE v.k \in {"num", "numstr"} -> [raises |-> "none", value |-> v.n]
      [] v.k = "str"               -> [raises |-> "ValueError", value |-> 0]
      [] OTHER                     -> [raises |-> "TypeError", value |-> 0]

(* round(x, 2) of a value given in thousandths, result in hundredths;    *)
(* an exact half goes to the even neighbour.                             *)
Round2(x) ==
    LET q == x \div 10
        r == x % 10
    IN  IF r < 5 THEN q
        ELSE IF r > 5 THEN q + 1
        ELSE IF q % 2 = 0 THEN q ELSE q + 1

(* variant: trend[-7:] *)
LastSeven(trend) ==
    IF Len(trend) <= 7 THEN trend
    ELSE SubSeq(trend, Len(trend) - 6, Len(trend))

(* trend[-6:] *)
LastSix(trend) ==
    IF Len(trend) <= 6 THEN trend
    ELSE SubSeq(trend, Len(trend) - 5, Len(trend))

(* variant: previous_aura_score is assigned after aura_score *)
UpdateCelebStalePrevious(celeb, change_value) ==
    LET score == Round2(celeb.aura_score * 10 + change_value)
        c1    == Put(celeb, "aura_score", score)
        c2    == Put(c1, "previous_aura_score", c1.aura_score)
        seed  == [k \in 1..7 |-> score]
        trend == LastSix(Get(c2, "trend_7_days", seed))
    IN  Put(c2, "trend_7_days", Append(trend, score))

(* variant: the stored name is normalised to lower case on update *)
UpdateCelebRenaming(celeb, change_value) ==
    LET score == Round2(celeb.aura_score * 10 + change_value)
        c0    == Put(celeb, "name", Lower(celeb.name))
        c1    == Put(c0, "previous_aura_score", celeb.aura_score)
        c2    == Put(c1, "aura_score", score)
        seed  == [k \in 1..7 |-> score]
        trend == LastSix(Get(c2, "trend_7_days", seed))
    IN  Put(c2, "trend_7_days", Append(trend, score))

(* variant: an absent trend is seeded with the score before the update *)
UpdateCelebSeedOld(celeb, change_value) ==
    LET score == Round2(celeb.aura_score * 10 + change_value)
        c1    == Put(celeb, "previous_aura_score", celeb.aura_score)
        c2    == Put(c1, "aura_score", score)
        seed  == [k \in 1..7 |-> celeb.aura_score]
        trend == LastSix(Get(c2, "trend_7_days", seed))
    IN  Put(c2, "trend_7_days", Append(trend, score))

(* lines 110-117 for one celebrity whose aura_score is present *)
UpdateCeleb(celeb, change_value) ==
    LET score == Round2(celeb.aura_score * 10 + change_value)
        c1    == Put(celeb, "previous_aura_score", celeb.aura_score)
        c2    == Put(c1, "aura_score", score)
        seed  == [k \in 1..7 |-> score]
        trend == LastSix(Get(c2, "trend_7_days", seed))
    IN  Put(c2, "trend_7_days", Append(trend, score))

(* data.get('celebrities', []) and the list of their names *)
Celebrities(d) == Get(d, "celebrities", <<>>)

CelebrityNames(d) == [k \in 1..Len(Celebrities(d)) |-> Celebrities(d)[k].name]

(* variant: the empty-roster return is never taken *)
NeverEmpty(names) == FALSE

(* `if not celebrity_names` *)
IsEmptyRoster(names) == names = <<>>

-----------------------------------------------------------------------------
(* The response text, as a sequence of tokens.  A "json" token is one    *)
(* complete JSON value (v names it), "ws" is whitespace, "fence" a       *)
(* markdown code-fence line, "prose" words around the payload, "garbage" *)
(* text that starts like JSON and is not.                                *)

Tok(t)  == [t |-> t, v |-> "none"]
Json(v) == [t |-> "json", v |-> v]

PayloadIds == {"P_exact", "P_case", "P_missing", "P_str", "P_null",
               "P_list", "P_obj", "P_numstr", "P_tiny", "P_array"}

(* What json.loads yields for each payload: a dict, or a list *)
Payload(v) ==
    CASE v = "P_exact"   -> [type |-> "dict", items |->
                             ("Jane Doe" :> Num(-12500)) @@ ("Bob" :> Num(5004))]
      [] v = "P_case"    -> [type |-> "dict", items |->
                             ("jane doe" :> Num(3000)) @@ ("BOB" :> Num(1000))]
      [] v = "P_missing" -> [type |-> "dict", items |-> ("Bob" :> Num(2500))]
      [] v = "P_str"     -> [type |-> "dict", items |->
                             ("Jane Doe" :> Str) @@ ("Bob" :> Num(1000))]
      [] v = "P_null"    -> [type |-> "dict", items |->
                             ("Jane Doe" :> Num(1000)) @@ ("Bob" :> Null)]
      [] v = "P_list"    -> [type |-> "dict", items |->
                             ("Jane Doe" :> List) @@ ("Bob" :> Num(1000))]
      [] v = "P_obj"     -> [type |-> "dict", items |->
                             ("Jane Doe" :> Num(1000)) @@ ("Bob" :> Obj)]
      [] v = "P_numstr"  -> [type |-> "dict", items |->
                             ("Jane Doe" :> NumStr(2500)) @@ ("Bob" :> Num(-7))]
      [] v = "P_tiny"    -> [type |-> "dict", items |->
                             ("Jane Doe" :> Num(4)) @@ ("Bob" :> Num(-4))]
      [] OTHER           -> [type |-> "list", items |-> <<>>]

NoChanges == [type |-> "none", items |-> <<>>]

Bare(v)    == <<Json(v)>>
Padded(v)  == <<Tok("ws"), Json(v), Tok("ws")>>
Fenced(v)  == <<Tok("fence"), Json(v), Tok("fence")>>
Chatty(v)  == <<Tok("prose"), Tok("ws"), Tok("fence"), Json(v), Tok("fence"),
                Tok("ws"), Tok("prose")>>
Prosy(v)   == <<Tok("prose"), Json(v), Tok("prose")>>

Responses ==
    {Bare(v) : v \in PayloadIds}
    \cup {Padded("P_exact"), Fenced("P_exact"), Chatty("P_exact"),
          Prosy("P_tiny")}
    \cup {<<>>, <<Tok("ws")>>, <<Tok("prose")>>, <<Tok("garbage")>>}

(* `not response.text` *)
IsEmptyText(text) == text = <<>>

(* str.strip() *)
RECURSIVE LStrip(_)
LStrip(text) ==
    IF text # <<>> /\ Head(text).t = "ws" THEN LStrip(Tail(text)) ELSE text

RECURSIVE RStrip(_)
RStrip(text) ==
    IF text # <<>> /\ text[Len(text)].t = "ws"
    THEN RStrip(SubSeq(text, 1, Len(text) - 1))
    ELSE text

Strip(text) == RStrip(LStrip(text))

(* variant: parse the first JSON object found anywhere in the text *)
JsonLoadsSalvage(text) ==
    LET at == {k \in 1..Len(text) : text[k].t = "json"}
    IN  IF at # {}
        THEN [raises |-> "none", value |-> Payload(text[CHOOSE k \in at : TRUE].v)]
        ELSE [raises |-> "JSONDecodeError", value |-> NoChanges]

(* json.loads(text): the document must be one JSON value, whitespace     *)
(* around it allowed, anything else is a JSONDecodeError.                *)
JsonLoads(text) ==
    LET body == SelectSeq(text, LAMBDA tok : tok.t # "ws")
    IN  IF Len(body) = 1 /\ body[1].t = "json"
        THEN [raises |-> "none", value |-> Payload(body[1].v)]
        ELSE [raises |-> "JSONDecodeError", value |-> NoChanges]

-----------------------------------------------------------------------------
(* data.json.  kind "doc" is a readable JSON document of the expected    *)
(* shape; "unreadable" makes open() fail, "corrupt" makes json.load fail,*)
(* "malformed" is valid JSON of another shape (a list, or a celebrity    *)
(* without a name), on which lines 48-49 raise.                          *)

Jane(fields) == fields @@ [name |-> "Jane Doe", aura_score |-> 10000]

Bob(fields)  == fields @@ [name |-> "Bob", aura_score |-> 5050,
                           previous_aura_score |-> 5000, category |-> "actor"]

NoFields == [x \in {} |-> 0]

Doc(celebrities) ==
    [celebrities |-> celebrities, last_updated |-> 0, market |-> "Aura Market"]

InitialDocs ==
    { Doc(<<Jane(NoFields), Bob([trend_7_days |-> <<5000, 5050>>])>>),
      Doc(<<Jane([trend_7_days |-> <<9400, 9500, 9600, 9700, 9800, 9900, 10000>>]),
            Bob([trend_7_days |-> <<4300, 4400, 4500, 4600, 4700, 4800, 5000, 5050>>])>>),
      Doc(<<Jane(NoFields),
            [name |-> "Bob", category |-> "actor"]>>),
      Doc(<<>>),
      [last_updated |-> 0] }

NoDoc == [last_updated |-> 0]

Store(kind, doc) == [kind |-> kind, doc |-> doc]

InitialStores ==
    {Store("doc", d) : d \in InitialDocs}
    \cup {Store(k, NoDoc) : k \in {"unreadable", "corrupt", "malformed"}}

(* variant: a failed load is swallowed and the run goes on with {} *)
ReadableAlways(kind) == TRUE

(* whether lines 45-49 complete: open, json.load, .get and the names *)
Readable(kind) == kind = "doc"

(* the exception lines 45-49 raise on a store that is not a document *)
LoadException(kind) ==
    CASE kind = "unreadable" -> "FileNotFoundError"
      [] kind = "corrupt"    -> "JSONDecodeError"
      [] OTHER               -> "AttributeError"

-----------------------------------------------------------------------------
(* Exit statuses *)

(* lines 11-13 and 19-22: exit(1) *)
ConfigExitStatus == 1

(* variant: the handlers of the call end in exit(0) *)
GatewayExitStatusZero(exc) == 0

(* lines 73-85: both handlers of the call end in exit(1) *)
GatewayExitStatus(exc) == 1

(* variant: the handlers of the outer try end in exit(0) *)
HandlerExitStatusZero(exc) == 0

(* lines 129-136: the handlers of the outer try end in exit(1) *)
HandlerExitStatus(exc) ==
    IF exc \in {"JSONDecodeError", "ValueError"} THEN 1 ELSE 1

(* variant: a missing credential is only warned about *)
CredentialAlwaysOk(c) == TRUE

(* lines 11 and 16-19: the key is set and genai.configure did not raise *)
CredentialOk(c) == c = "ok"

(* variant: the write sits inside the loop body's exit *)
LoopFinishedEarly(k, celebrities) == TRUE

(* line 100: the for loop ends after the last celebrity *)
LoopFinished(k, celebrities) == k = Len(celebrities)

(* variant: the document is rebuilt from the two keys the script knows *)
StampRebuild(d, now) == [celebrities |-> Celebrities(d), last_updated |-> now]

(* variant: the timestamp is not refreshed *)
StampStale(d, now) == d

(* line 121: data['last_updated'] = now *)
Stamp(d, now) == Put(d, "last_updated", now)

(* variant: one gateway call per celebrity *)
CallsPerEntity(names) == Len(names)

(* the gateway is called once, outside the loop over the celebrities *)
CallsMade(names) == 1

-----------------------------------------------------------------------------

Init ==
    /\ pc = "config"
    /\ cycle = 1
    /\ clock = 1
    /\ credential = "unset"
    /\ disk \in InitialStores
    /\ diskBefore = disk
    /\ data = [x \in {} |-> 0]
    /\ i = 0
    /\ response_text = <<>>
    /\ aura_changes = NoChanges
    /\ exitCode = 0
    /\ raised = "none"
    /\ raisedAt = "none"
    /\ gatewayCalls = 0
    /\ writes = 0
    /\ updatesApplied = 0
    /\ reads = 0

(* an exception reaches a handler that ends the process *)
Abort(exc, at, status) ==
    /\ pc' = "done"
    /\ exitCode' = status
    /\ raised' = exc
    /\ raisedAt' = at

(* lines 10-22: the credential is read and the client configured *)
Configure ==
    /\ pc = "config"
    /\ \E c \in {"ok", "missing", "badclient"} :
         /\ credential' = c
         /\ IF CredentialOk(c)
            THEN /\ pc' = "load"
                 /\ UNCHANGED <<exitCode, raised, raisedAt>>
            ELSE Abort("SystemExit", "config", ConfigExitStatus)
    /\ UNCHANGED <<cycle, clock, disk, diskBefore, data, i, response_text,
                   aura_changes, gatewayCalls, writes, updatesApplied, reads>>

(* lines 43-53: read data.json, list the names, return on an empty list *)
Load ==
    /\ pc = "load"
    /\ reads' = reads + 1
    /\ IF ~Readable(disk.kind)
       THEN /\ Abort(LoadException(disk.kind), "load",
                     HandlerExitStatus(LoadException(disk.kind)))
            /\ UNCHANGED data
       ELSE /\ data' = disk.doc
            /\ IF IsEmptyRoster(CelebrityNames(disk.doc))
               THEN /\ pc' = "done"
                    /\ UNCHANGED <<exitCode, raised, raisedAt>>
               ELSE /\ pc' = "call"
                    /\ UNCHANGED <<exitCode, raised, raisedAt>>
    /\ UNCHANGED <<cycle, clock, credential, disk, diskBefore, i, response_text,
                   aura_changes, gatewayCalls, writes, updatesApplied>>

(* lines 56-85: one generate_content call for the whole roster *)
Call ==
    /\ pc = "call"
    /\ gatewayCalls' = gatewayCalls + CallsMade(CelebrityNames(data))
    /\ \E outcome \in {"ok", "APIError", "ResourceExhaustedError", "Exception"} :
         IF outcome = "ok"
         THEN /\ \E r \in Responses : response_text' = r
              /\ pc' = "extract"
              /\ UNCHANGED <<exitCode, raised, raisedAt>>
         ELSE /\ Abort(outcome, "call", GatewayExitStatus(outcome))
              /\ UNCHANGED response_text
    /\ UNCHANGED <<cycle, clock, credential, disk, diskBefore, data, i,
                   aura_changes, writes, updatesApplied, reads>>

(* lines 89-97: empty check, strip, json.loads *)
Extract ==
    /\ pc = "extract"
    /\ IF IsEmptyText(response_text)
       THEN /\ Abort("ValueError", "extract", HandlerExitStatus("ValueError"))
            /\ UNCHANGED <<aura_changes, i>>
       ELSE LET parsed == JsonLoads(Strip(response_text))
            IN  IF parsed.raises # "none"
                THEN /\ Abort(parsed.raises, "extract",
                              HandlerExitStatus(parsed.raises))
                     /\ UNCHANGED <<aura_changes, i>>
                ELSE /\ aura_changes' = parsed.value
                     /\ i' = 1
                     /\ pc' = IF Celebrities(data) = <<>>
                              THEN "persist" ELSE "update"
                     /\ UNCHANGED <<exitCode, raised, raisedAt>>
    /\ UNCHANGED <<cycle, clock, credential, disk, diskBefore, data,
                   response_text, gatewayCalls, writes, updatesApplied, reads>>

(* lines 100-117: one iteration of the loop, for celebrities[i] *)
UpdateEntity ==
    /\ pc = "update"
    /\ LET celeb == Celebrities(data)[i]
           f     == Float(Get(aura_changes.items, celeb.name, DefaultChange))
           change_value == IF f.raises = "ValueError" THEN 0 ELSE f.value
       IN  IF aura_changes.type # "dict"
           THEN /\ Abort("AttributeError", "update",
                         HandlerExitStatus("AttributeError"))
                /\ UNCHANGED <<data, i>>
           ELSE IF f.raises = "TypeError"
           THEN /\ Abort("TypeError", "update", HandlerExitStatus("TypeError"))
                /\ UNCHANGED <<data, i>>
           ELSE IF ~Has(celeb, "aura_score")
           THEN /\ Abort("KeyError", "update", HandlerExitStatus("KeyError"))
                /\ UNCHANGED <<data, i>>
           ELSE /\ data' = [data EXCEPT
                              !.celebrities[i] = UpdateCeleb(celeb, change_value)]
                /\ i' = i + 1
                /\ pc' = IF LoopFinished(i, Celebrities(data))
                         THEN "persist" ELSE "update"
                /\ UNCHANGED <<exitCode, raised, raisedAt>>
    /\ UNCHANGED <<cycle, clock, credential, disk, diskBefore, response_text,
                   aura_changes, gatewayCalls, writes, updatesApplied, reads>>

(* lines 119-127: stamp last_updated, open data.json for writing (which  *)
(* truncates it) and dump the document.                                  *)
Persist ==
    /\ pc = "persist"
    /\ data' = Stamp(data, clock)
    /\ \E outcome \in {"ok", "open_fails", "dump_fails"} :
         CASE outcome = "ok" ->
                /\ disk' = Store("doc", data')
                /\ writes' = writes + 1
                /\ updatesApplied' = updatesApplied + 1
                /\ pc' = "done"
                /\ UNCHANGED <<exitCode, raised, raisedAt>>
           [] outcome = "open_fails" ->
                /\ Abort("PermissionError", "persist",
                         HandlerExitStatus("PermissionError"))
                /\ UNCHANGED <<disk, writes, updatesApplied>>
           [] OTHER ->
                /\ disk' = Store("corrupt", NoDoc)
                /\ writes' = writes + 1
                /\ Abort("OSError", "persist", HandlerExitStatus("OSError"))
                /\ UNCHANGED updatesApplied
    /\ UNCHANGED <<cycle, clock, credential, diskBefore, i, response_text,
                   aura_changes, gatewayCalls, reads>>

(* the scheduler starts the script again *)
NextRun ==
    /\ pc = "done"
    /\ cycle < MaxCycles
    /\ pc' = "config"
    /\ cycle' = cycle + 1
    /\ clock' = clock + 1
    /\ credential' = "unset"
    /\ diskBefore' = disk
    /\ data' = [x \in {} |-> 0]
    /\ i' = 0
    /\ response_text' = <<>>
    /\ aura_changes' = NoChanges
    /\ exitCode' = 0
    /\ raised' = "none"
    /\ raisedAt' = "none"
    /\ gatewayCalls' = 0
    /\ writes' = 0
    /\ reads' = 0
    /\ UNCHANGED <<disk, updatesApplied>>

Next ==
    \/ Configure
    \/ Load
    \/ Call
    \/ Extract
    \/ UpdateEntity
    \/ Persist
    \/ NextRun

Spec == Init /\ [][Next]_vars

TypeOK ==
    /\ pc \in {"config", "load", "call", "extract", "update", "persist", "done"}
    /\ cycle \in 1..MaxCycles
    /\ exitCode \in {0, 1}
    /\ gatewayCalls \in Nat
    /\ writes \in Nat

-----------------------------------------------------------------------------
(* Vocabulary of the properties *)

Done == pc = "done"

LoadedOk == credential = "ok" /\ diskBefore.kind = "doc"

LoadedCelebs == Celebrities(diskBefore.doc)

EmptyRoster == CelebrityNames(diskBefore.doc) = <<>>

(* the store holds a complete document carrying this cycle's timestamp *)
WroteFresh ==
    /\ writes = 1
    /\ disk.kind = "doc"
    /\ disk.doc.last_updated = clock
    /\ disk.doc.last_updated # diskBefore.doc.last_updated

(* timestamp-only persistence *)
WroteTimestampOnly ==
    /\ WroteFresh
    /\ Celebrities(disk.doc) = LoadedCelebs

StoreUntouched == writes = 0 /\ disk = diskBefore

UpdateCompleted ==
    /\ pc \in {"persist", "done"}
    /\ aura_changes.type = "dict"
    /\ i = Len(Celebrities(data)) + 1

-----------------------------------------------------------------------------
(* C1 (as stated): a failed gateway call still ends with exit status 0   *)
(* and the document rewritten with a new timestamp and the loaded        *)
(* entities.                                                             *)
C1_DegradedWriteOnGatewayFailure ==
    (Done /\ raisedAt = "call") => (exitCode = 0 /\ WroteTimestampOnly)

(* C1 (amended): a failed gateway call ends the process with exit status *)
(* 1 and the store is not written: it holds exactly what was loaded.     *)
C1_GatewayFailureAborts ==
    (Done /\ raisedAt = "call") => (exitCode = 1 /\ StoreUntouched)

C1_Witness ==
    Done /\ raisedAt = "call" /\ gatewayCalls = 1 /\ exitCode = 1

(* C2 (as stated): a response that cannot be turned into a mapping       *)
(* degrades to timestamp-only persistence, and nothing aborts the write. *)
C2_DegradedWriteOnExtractionFailure ==
    (Done /\ raisedAt = "extract") => (exitCode = 0 /\ WroteTimestampOnly)

(* C2 (amended): a response that is empty, holds no JSON or holds        *)
(* invalid JSON ends the process with exit status 1 and no write.        *)
C2_ExtractionFailureAborts ==
    (Done /\ raisedAt = "extract") =>
        /\ exitCode = 1
        /\ StoreUntouched
        /\ raised \in {"ValueError", "JSONDecodeError"}
        /\ aura_changes = NoChanges

C2_Witness ==
    /\ Done /\ raisedAt = "extract" /\ raised = "JSONDecodeError"
    /\ response_text = <<Tok("garbage")>>

(* C3 (as stated): an empty roster is persisted with only the timestamp  *)
(* changed, as a non-error outcome.                                      *)
C3_EmptyRosterPersisted ==
    (Done /\ LoadedOk /\ EmptyRoster) => (exitCode = 0 /\ WroteTimestampOnly)

(* C3 (amended): with an empty roster the cycle ends as a non-error      *)
(* outcome (exit status 0) without calling the gateway and without       *)
(* writing: the store, its timestamp included, is left as loaded.        *)
C3_EmptyRosterSkipsWrite ==
    (Done /\ LoadedOk /\ EmptyRoster) =>
        (exitCode = 0 /\ gatewayCalls = 0 /\ StoreUntouched)

C3_Witness ==
    /\ Done /\ LoadedOk /\ EmptyRoster
    /\ Has(diskBefore.doc, "celebrities") /\ exitCode = 0

(* C4: the gateway is invoked at most once in a cycle whatever the size  *)
(* of the roster: once when configuration and load succeeded and the     *)
(* roster is non-empty, never otherwise.                                 *)
C4_SingleGatewayCall ==
    /\ gatewayCalls <= 1
    /\ pc \in {"extract", "update", "persist"} => gatewayCalls = 1
    /\ Done => (gatewayCalls = 1 <=> (LoadedOk /\ ~EmptyRoster))

C4_Witness ==
    Done /\ gatewayCalls = 1 /\ Len(LoadedCelebs) = 2 /\ WroteFresh

(* C5 (as stated): exit status 0 exactly when the document was written   *)
(* with a fresh timestamp in this cycle, non-zero only when the load or  *)
(* the persist failed.                                                   *)
C5_ExitZeroIffWritten ==
    (Done /\ credential = "ok") =>
        /\ (exitCode = 0 <=> WroteFresh)
        /\ (exitCode # 0 => raisedAt \in {"load", "persist"})

(* C5 (amended): exit status 0 exactly when the document was written     *)
(* completely with a fresh timestamp in this cycle or the roster was     *)
(* empty (then nothing is written); non-zero exactly when configuration, *)
(* load, gateway call, extraction, update or persist failed.             *)
C5_ExitStatus ==
    Done => /\ (exitCode = 0 <=>
                    (WroteFresh \/ (LoadedOk /\ EmptyRoster /\ StoreUntouched)))
            /\ (exitCode = 1 <=>
                    raisedAt \in {"config", "load", "call", "extract",
                                  "update", "persist"})
            /\ (raisedAt = "none" /\ ~EmptyRoster => WroteFresh)

C5_Witness ==
    Done /\ exitCode = 0 /\ WroteFresh /\ raisedAt = "none"

(* C6: a store that cannot be opened or does not hold valid structured   *)
(* data ends the process with a non-zero exit status, without a gateway  *)
(* call and without a write.                                             *)
C6_FatalLoad ==
    (credential = "ok" /\ diskBefore.kind # "doc") =>
        /\ pc \in {"load", "done"}
        /\ gatewayCalls = 0
        /\ StoreUntouched
        /\ Done => (exitCode # 0 /\ raisedAt = "load")

C6_Witness ==
    Done /\ raisedAt = "load" /\ diskBefore.kind = "corrupt" /\ exitCode = 1

-----------------------------------------------------------------------------
(* Vocabulary of the per-entity properties *)

TrendBounded(celeb) ==
    /\ Has(celeb, "trend_7_days")
    /\ Len(celeb.trend_7_days) \in 1..7
    /\ celeb.trend_7_days[Len(celeb.trend_7_days)] = celeb.aura_score

(* the celebrities the loop of this cycle has already updated *)
UpdatedSoFar ==
    IF pc \in {"update", "persist", "done"} /\ i >= 1
    THEN 1..(i - 1) ELSE {}

LoadedScore(k) == LoadedCelebs[k].aura_score

Change(k) == Get(aura_changes.items, LoadedCelebs[k].name, DefaultChange)

NonNumeric(v) == v.k \in {"str", "null", "list", "obj"}

(* the extracted mapping has no key equal to the name of celebrity k but *)
(* has one that differs from it only in letter case                      *)
CaseOnlyKeys(k) ==
    IF LoadedCelebs[k].name \in DOMAIN aura_changes.items THEN {}
    ELSE {key \in DOMAIN aura_changes.items :
            Lower(key) = Lower(LoadedCelebs[k].name)}

HasToken(text, kinds) == \E k \in 1..Len(text) : text[k].t \in kinds

(* a JSON object inside a code fence or between prose *)
Wrapped(text) ==
    HasToken(text, {"json"}) /\ HasToken(text, {"fence", "prose"})

(* C7: whatever trend an entity starts with (absent, short, 7 long,      *)
(* longer), after one or more successive updates its trend has at most 7 *)
(* elements and ends with the entity's current score.                    *)
C7_TrendBounded ==
    /\ \A k \in UpdatedSoFar : TrendBounded(Celebrities(data)[k])
    /\ (updatesApplied >= 1 /\ disk.kind = "doc") =>
            \A k \in 1..Len(Celebrities(disk.doc)) :
                TrendBounded(Celebrities(disk.doc)[k])

C7_Witness ==
    /\ Done /\ updatesApplied = 2 /\ WroteFresh
    /\ \E k \in 1..Len(Celebrities(disk.doc)) :
          /\ Len(Celebrities(disk.doc)[k].trend_7_days) = 7
          /\ Len(Celebrities(disk.doc)[k].trend_7_days)
                < Len(LoadedCelebs[k].trend_7_days) + 1

(* C8 (as stated): a non-numeric extracted delta (a string, null, a      *)
(* list, a nested object) counts as 0.0 without raising; the other       *)
(* entities get their own delta and the document is persisted.           *)
C8_NonNumericDeltaIsZero ==
    ( /\ Done /\ raisedAt # "persist"
      /\ aura_changes.type = "dict"
      /\ \A k \in 1..Len(LoadedCelebs) : Has(LoadedCelebs[k], "aura_score")
      /\ \E k \in 1..Len(LoadedCelebs) : NonNumeric(Change(k)) )
    => /\ raisedAt = "none"
       /\ WroteFresh
       /\ \A k \in 1..Len(LoadedCelebs) :
             Celebrities(disk.doc)[k].aura_score =
                Round2(LoadedScore(k) * 10
                       + (IF NonNumeric(Change(k)) THEN 0 ELSE Change(k).n))

(* C9 (as stated): an extracted key differing from a stored name only in *)
(* letter case is matched, so the entity receives that key's delta.      *)
C9_CaseInsensitiveMatch ==
    UpdateCompleted =>
        \A k \in 1..Len(LoadedCelebs) : \A key \in CaseOnlyKeys(k) :
            Celebrities(data)[k].aura_score =
                Round2(LoadedScore(k) * 10 + aura_changes.items[key].n)

(* C9 (amended): keys are compared with the stored name exactly; a key   *)
(* differing only in letter case is not matched and the entity receives  *)
(* the missing-coverage default of 0.0, leaving its score unchanged.     *)
C9_ExactMatchOnly ==
    UpdateCompleted =>
        \A k \in 1..Len(LoadedCelebs) :
            CaseOnlyKeys(k) # {} =>
                /\ Celebrities(data)[k].aura_score = LoadedScore(k)
                /\ Celebrities(data)[k].previous_aura_score = LoadedScore(k)

C9_Witness ==
    /\ UpdateCompleted /\ Done /\ WroteFresh
    /\ \E k \in 1..Len(LoadedCelebs) : \E key \in CaseOnlyKeys(k) :
          /\ LoadedCelebs[k].name = "Jane Doe" /\ key = "jane doe"
          /\ aura_changes.items[key].n # 0

(* C10 (as stated): a JSON object wrapped in a code fence or surrounded  *)
(* by prose is still extracted and the update proceeds as for a bare     *)
(* object.                                                               *)
C10_WrappedJsonExtracted ==
    (Done /\ Wrapped(response_text) /\ raisedAt # "persist") =>
        (raisedAt = "none" /\ aura_changes.type = "dict" /\ WroteFresh)

(* C10 (amended): a JSON object wrapped in a code fence or surrounded by *)
(* prose is not extracted: json.loads rejects the text and the process   *)
(* exits 1 without writing.  Only surrounding whitespace is tolerated.   *)
C10_WrappedJsonRejected ==
    /\ (pc \notin {"extract"} /\ Wrapped(response_text)) =>
            /\ Done /\ raisedAt = "extract" /\ raised = "JSONDecodeError"
            /\ exitCode = 1 /\ StoreUntouched
    /\ (pc \notin {"extract"} /\ response_text = Padded("P_exact")) =>
            aura_changes = Payload("P_exact")

C10_Witness ==
    /\ Done /\ response_text = Chatty("P_exact")
    /\ raised = "JSONDecodeError" /\ writes = 0

-----------------------------------------------------------------------------
(* Vocabulary of the update properties *)

(* the cycle ran to the end and wrote the document *)
FullSuccess == Done /\ raisedAt = "none" /\ WroteFresh

(* the delta the cycle applies to celebrity k, in thousandths *)
Delta(k) == IF Change(k).k \in {"num", "numstr"} THEN Change(k).n ELSE 0

Written(k) == Celebrities(disk.doc)[k]

(* the trend of newc is the refreshed trend of oldc: 7 copies of the new *)
(* score when oldc had none, else the last 6 of the old one and the new  *)
(* score                                                                 *)
TrendRefreshed(oldc, newc) ==
    LET t == newc.trend_7_days
        s == newc.aura_score
    IN  IF ~Has(oldc, "trend_7_days")
        THEN t = <<s, s, s, s, s, s, s>>
        ELSE LET o == oldc.trend_7_days
                 n == IF Len(o) < 6 THEN Len(o) ELSE 6
             IN  /\ Len(t) = n + 1
                 /\ t[n + 1] = s
                 /\ \A j \in 1..n : t[j] = o[Len(o) - n + j]

(* C11: after a fully successful cycle every entity's previous_score is  *)
(* the score loaded at the start of the cycle (the one the preceding     *)
(* cycle persisted) and its score is the loaded score plus its delta,    *)
(* rounded to hundredths.                                                *)
C11_DeltaApplied ==
    FullSuccess =>
        \A k \in 1..Len(LoadedCelebs) :
            /\ Written(k).previous_aura_score = LoadedScore(k)
            /\ Written(k).aura_score = Round2(LoadedScore(k) * 10 + Delta(k))
            /\ (LoadedScore(k) = 10000 /\ Change(k) = Num(-12500)) =>
                    Written(k).aura_score = 8750
            /\ (LoadedScore(k) = 5050 /\ Change(k) = Num(5004)) =>
                    Written(k).aura_score = 5550

C11_Witness ==
    /\ FullSuccess /\ cycle = 2 /\ updatesApplied = 2
    /\ \E k \in 1..Len(LoadedCelebs) :
          /\ Delta(k) # 0
          /\ Written(k).previous_aura_score # Written(k).aura_score
          /\ Has(LoadedCelebs[k], "previous_aura_score")
          /\ LoadedCelebs[k].previous_aura_score # LoadedScore(k)

(* C12: an entity whose name is absent from the extracted mapping gets a *)
(* zero-delta update: score unchanged, previous_score set to that score, *)
(* trend refreshed with the unchanged score appended.                    *)
C12_MissingCoverage ==
    UpdateCompleted =>
        \A k \in 1..Len(LoadedCelebs) :
            LoadedCelebs[k].name \notin DOMAIN aura_changes.items =>
                /\ Celebrities(data)[k].aura_score = LoadedScore(k)
                /\ Celebrities(data)[k].previous_aura_score = LoadedScore(k)
                /\ TrendRefreshed(LoadedCelebs[k], Celebrities(data)[k])

C12_Witness ==
    /\ FullSuccess /\ response_text = Bare("P_missing")
    /\ Written(1).name = "Jane Doe"
    /\ Written(1).aura_score = LoadedScore(1)
    /\ Written(2).aura_score # LoadedScore(2)

(* C13: no cycle renames, adds, removes or reorders entities: the names  *)
(* in memory after the load and in any document written are the names    *)
(* loaded, in the same order.                                            *)
C13_NamesPreserved ==
    /\ (LoadedOk /\ reads = 1 /\ pc # "load") =>
            CelebrityNames(data) = CelebrityNames(diskBefore.doc)
    /\ (disk.kind = "doc" /\ diskBefore.kind = "doc") =>
            CelebrityNames(disk.doc) = CelebrityNames(diskBefore.doc)

C13_Witness ==
    /\ FullSuccess /\ cycle = 2
    /\ CelebrityNames(disk.doc) = <<"Jane Doe", "Bob">>
    /\ Celebrities(disk.doc) # LoadedCelebs

(* C14: a missing credential or a client that cannot be configured ends  *)
(* the process with a non-zero status before any other work: no read of  *)
(* the store, no gateway call, no write.                                 *)
C14_ConfigFatal ==
    /\ pc = "config" => (reads = 0 /\ gatewayCalls = 0 /\ StoreUntouched)
    /\ credential \in {"missing", "badclient"} =>
            /\ Done /\ exitCode # 0 /\ raisedAt = "config"
            /\ reads = 0 /\ gatewayCalls = 0 /\ StoreUntouched

C14_Witness ==
    /\ Done /\ credential = "missing" /\ exitCode = 1
    /\ diskBefore.kind = "doc" /\ ~EmptyRoster

(* C15 (as stated): at every point, also after a failure during the      *)
(* final write, the store holds the complete document as it was before   *)
(* the cycle or the complete new document, never an empty, truncated or  *)
(* partial one.                                                          *)
C15_StoreAlwaysComplete ==
    diskBefore.kind = "doc" =>
        \/ disk = diskBefore
        \/ disk.kind = "doc" /\ disk.doc = data /\ WroteFresh

(* C16: the store is written at most once per cycle, only after the loop *)
(* has updated every entity, and a failure inside the loop leaves the    *)
(* store as it was: no partly updated document is persisted.             *)
C16_WriteAfterFullUpdate ==
    /\ writes <= 1
    /\ writes = 1 =>
            /\ Done
            /\ i = Len(Celebrities(data)) + 1
            /\ disk.kind = "doc" => disk.doc = data
    /\ disk # diskBefore => writes = 1
    /\ raisedAt = "update" => StoreUntouched

C16_Witness ==
    /\ Done /\ raisedAt = "update" /\ i = 2
    /\ Celebrities(data)[1] # LoadedCelebs[1]
    /\ StoreUntouched

(* C17: an update of an entity without a trend leaves exactly 7 copies   *)
(* of the new score; an update of an entity with a trend leaves the last *)
(* 6 elements of the old trend followed by the new score.                *)
C17_TrendSeedAndShift ==
    \A k \in UpdatedSoFar :
        TrendRefreshed(LoadedCelebs[k], Celebrities(data)[k])

C17_Witness ==
    /\ FullSuccess
    /\ ~Has(LoadedCelebs[1], "trend_7_days")
    /\ Written(1).aura_score # LoadedScore(1)
    /\ Len(Written(1).trend_7_days) = 7
    /\ Written(1).trend_7_days[1] = Written(1).aura_score
    /\ Len(LoadedCelebs[2].trend_7_days) = 2
    /\ Len(Written(2).trend_7_days) = 3

(* C18 (as stated): once extraction has produced a parsed payload the    *)
(* update cannot fail: whatever the payload (a JSON array or number      *)
(* included) and the loaded records, the cycle goes on to the persist    *)
(* step and does not abort inside the loop.                              *)
C18_UpdateNeverFails ==
    (Done /\ aura_changes.type # "none") => raisedAt \in {"none", "persist"}

(* C19: a successful cycle changes only score, previous_score and trend  *)
(* of each entity and the timestamp of the document; every other field   *)
(* of every entity and every other top-level key is written back as it   *)
(* was loaded.                                                           *)
C19_OtherFieldsPreserved ==
    FullSuccess =>
        /\ DOMAIN disk.doc = DOMAIN diskBefore.doc \cup {"last_updated"}
        /\ \A key \in DOMAIN diskBefore.doc \ {"celebrities", "last_updated"} :
              disk.doc[key] = diskBefore.doc[key]
        /\ Len(Celebrities(disk.doc)) = Len(LoadedCelebs)
        /\ \A k \in 1..Len(LoadedCelebs) :
              /\ DOMAIN Written(k) = DOMAIN LoadedCelebs[k]
                    \cup {"aura_score", "previous_aura_score", "trend_7_days"}
              /\ \A f \in DOMAIN LoadedCelebs[k]
                    \ {"aura_score", "previous_aura_score", "trend_7_days"} :
                    Written(k)[f] = LoadedCelebs[k][f]

C19_Witness ==
    /\ FullSuccess
    /\ disk.doc.market = "Aura Market"
    /\ Written(2).category = "actor"
    /\ Written(2).aura_score # LoadedScore(2)

=============================================================================
